---- MODULE Spec2Model ----
(***************************************************************************)
(* Model of the CogniCal memory service (src-tauri/src-python/main.py).    *)
(*                                                                         *)
(* The service keeps two module globals, _kb_path and _initialized, and    *)
(* exposes five functions.  initialize_memory is the only one that touches *)
(* the filesystem: it builds a pathlib.Path from its argument and calls    *)
(* mkdir(parents=True, exist_ok=True) on it.  Path construction            *)
(* (normalisation of the string), str(Path), Path.parent, Path.mkdir and   *)
(* the mkdir system call are modelled on a POSIX filesystem.               *)
(*                                                                         *)
(* Python strings that the program takes apart are sequences of            *)
(* one-character strings; Optional values are sequences of length 0 or 1.  *)
(***************************************************************************)
EXTENDS Integers, Sequences, FiniteSets, TLC

\* ------------------------------------------------------------------ bounds
\* longest path string handed to initialize_memory
MaxLen == 2
\* number of initialize_memory calls in one run
MaxInits == 2

\* ------------------------------------------------------- strings and inputs
Chars == {"a", "/", "."}

Strings == UNION {[1..k -> Chars] : k \in 0..MaxLen}

None == <<>>

Some(x) == <<x>>

StrArg(s) == [type |-> "str", val |-> s]

NoneArg == [type |-> "NoneType", val |-> <<>>]

\* arguments the host may pass as kb_path_str
InitArgs == {StrArg(s) : s \in Strings} \cup {NoneArg}

Queries == {"hello", ""}

Limits == {0, 5}

ConversationIds == {"c1", "c2"}

Metadatas == {None, Some("m")}

\* ------------------------------------------------------------ pathlib.Path
\* s.split("/")
RECURSIVE Split(_)
Split(s) ==
  IF s = <<>> THEN << <<>> >>
  ELSE LET r == Split(Tail(s)) IN
       IF Head(s) = "/" THEN << <<>> >> \o r
       ELSE << <<Head(s)>> \o Head(r) >> \o Tail(r)

\* "/".join(parts)
RECURSIVE Join(_)
Join(parts) ==
  IF parts = <<>> THEN <<>>
  ELSE IF Len(parts) = 1 THEN Head(parts)
  ELSE Head(parts) \o <<"/">> \o Join(Tail(parts))

\* number of "/" at the start of s
RECURSIVE LeadingSlashes(_)
LeadingSlashes(s) ==
  IF s = <<>> \/ Head(s) # "/" THEN 0 ELSE 1 + LeadingSlashes(Tail(s))

\* posixpath.splitroot: "" for a relative path, "//" for exactly two leading
\* slashes, "/" otherwise
PathRoot(s) ==
  LET n == LeadingSlashes(s) IN
  IF n = 0 THEN <<>> ELSE IF n = 2 THEN <<"/", "/">> ELSE <<"/">>

\* the components kept by Path(s): empty ones and "." are dropped
PathParts(s) ==
  SelectSeq(Split(SubSeq(s, Len(PathRoot(s)) + 1, Len(s))),
            LAMBDA c : c # <<>> /\ c # <<".">>)

\* Path(s) for a str s
PathParse(s) == [root |-> PathRoot(s), parts |-> PathParts(s)]

\* str(p)
PathStr(p) ==
  IF p.root = <<>> /\ p.parts = <<>> THEN <<".">>
  ELSE p.root \o Join(p.parts)

\* p.parent
PathParent(p) ==
  IF p.parts = <<>> THEN p
  ELSE [root |-> p.root, parts |-> SubSeq(p.parts, 1, Len(p.parts) - 1)]

\* Path(arg): TypeError unless arg is a str
PathCtor(arg) ==
  IF arg.type = "str"
  THEN [exc |-> None, value |-> Some(PathParse(arg.val))]
  ELSE [exc |-> Some([type |-> "TypeError", filename |-> None]), value |-> None]

\* -------------------------------------------------------------- filesystem
\* A node is the sequence of names from the root directory.
Root == <<>>

\* working directory of the process: /aa
Cwd == << <<"a", "a">> >>

\* regular files: /aa/.a
Files == {Cwd \o << <<".", "a">> >>}

\* directories the process may not create entries in: /
ReadOnly == {Root}

\* directories that exist when the module is loaded
InitialDirs == {Root, Cwd}

\* the names of a path string as the kernel sees them
OsComponents(s) == SelectSeq(Split(s), LAMBDA c : c # <<>>)

OsStart(s) == IF s # <<>> /\ Head(s) = "/" THEN Root ELSE Cwd

NodeParent(n) == IF n = <<>> THEN n ELSE SubSeq(n, 1, Len(n) - 1)

\* path walk from directory n along comps
RECURSIVE Walk(_, _, _)
Walk(n, comps, dirs) ==
  IF n \in Files THEN [err |-> "ENOTDIR", node |-> n]
  ELSE IF n \notin dirs THEN [err |-> "ENOENT", node |-> n]
  ELSE IF comps = <<>> THEN [err |-> "ok", node |-> n]
  ELSE LET c == Head(comps) IN
       Walk(IF c = <<".">> THEN n
            ELSE IF c = <<".", ".">> THEN NodeParent(n)
            ELSE Append(n, c),
            Tail(comps), dirs)

\* os.mkdir(s)
OsMkdir(s, dirs) ==
  LET comps == OsComponents(s) IN
  IF s = <<>> THEN [err |-> "ENOENT", dirs |-> dirs]
  ELSE IF comps = <<>> THEN [err |-> "EEXIST", dirs |-> dirs]
  ELSE LET last == comps[Len(comps)]
           w    == Walk(OsStart(s), SubSeq(comps, 1, Len(comps) - 1), dirs)
           t    == Append(w.node, last)
       IN IF w.err # "ok" THEN [err |-> w.err, dirs |-> dirs]
          ELSE IF last \in {<<".">>, <<".", ".">>} THEN [err |-> "EEXIST", dirs |-> dirs]
          ELSE IF t \in dirs \cup Files THEN [err |-> "EEXIST", dirs |-> dirs]
          ELSE IF w.node \in ReadOnly THEN [err |-> "EACCES", dirs |-> dirs]
          ELSE [err |-> "ok", dirs |-> dirs \cup {t}]

\* os.path.isdir(s), as used by Path.is_dir()
IsDir(s, dirs) ==
  s # <<>> /\ Walk(OsStart(s), OsComponents(s), dirs).err = "ok"

\* the OSError subclass raised for an errno
ErrnoExc(err) ==
  CASE err = "ENOENT"  -> "FileNotFoundError"
    [] err = "EEXIST"  -> "FileExistsError"
    [] err = "ENOTDIR" -> "NotADirectoryError"
    [] err = "EACCES"  -> "PermissionError"

OsError(err, p) == Some([type |-> ErrnoExc(err), filename |-> Some(PathStr(p))])

\* Path.mkdir(parents=parents, exist_ok=exist_ok)
RECURSIVE PathMkdir(_, _, _, _)
PathMkdir(p, parents, exist_ok, dirs) ==
  LET r == OsMkdir(PathStr(p), dirs) IN
  IF r.err = "ok" THEN [exc |-> None, dirs |-> r.dirs]
  ELSE IF r.err = "ENOENT"
  THEN IF ~parents \/ PathParent(p) = p
       THEN [exc |-> OsError(r.err, p), dirs |-> dirs]
       ELSE LET up == PathMkdir(PathParent(p), TRUE, TRUE, dirs) IN
            IF up.exc # None THEN up
            ELSE PathMkdir(p, FALSE, exist_ok, up.dirs)
  ELSE IF ~exist_ok \/ ~IsDir(PathStr(p), dirs)
       THEN [exc |-> OsError(r.err, p), dirs |-> dirs]
       ELSE [exc |-> None, dirs |-> dirs]

\* ------------------------------------------------------------ service state
VARIABLES
  kb_path,        \* _kb_path: None or Some(Path)
  initialized,    \* _initialized
  dirs,           \* the directories that exist on the filesystem
  lastCall,       \* the most recent call: function, arguments, outcome
  prevCall,       \* the call before the most recent one
  everSucceeded,  \* some initialize_memory call has returned success: True
  inits           \* number of initialize_memory calls made so far

vars == <<kb_path, initialized, dirs, lastCall, prevCall, everSucceeded, inits>>

Returned(result) == [outcome |-> "return", result |-> result]

Raised(exc) == [outcome |-> "raise", result |-> exc]

\* exist_ok=False passed to mkdir
initialize_try_noExistOk(arg, kb, ini, ds) ==
  LET c == PathCtor(arg) IN
  IF c.exc # None
  THEN [kb_path |-> kb, initialized |-> ini, dirs |-> ds, exc |-> c.exc,
        result |-> None]
  ELSE LET m == PathMkdir(c.value[1], TRUE, FALSE, ds) IN
       IF m.exc # None
       THEN [kb_path |-> c.value, initialized |-> ini, dirs |-> m.dirs,
             exc |-> m.exc, result |-> None]
       ELSE [kb_path |-> c.value, initialized |-> TRUE, dirs |-> m.dirs,
             exc |-> None,
             result |-> Some([success |-> TRUE,
                              message |-> <<"Memory service initialized at ",
                                            PathStr(c.value[1])>>,
                              kb_path |-> PathStr(c.value[1])])]

\* _kb_path assigned only once mkdir has succeeded
initialize_try_assignAfterMkdir(arg, kb, ini, ds) ==
  LET c == PathCtor(arg) IN
  IF c.exc # None
  THEN [kb_path |-> kb, initialized |-> ini, dirs |-> ds, exc |-> c.exc,
        result |-> None]
  ELSE LET m == PathMkdir(c.value[1], TRUE, TRUE, ds) IN
       IF m.exc # None
       THEN [kb_path |-> kb, initialized |-> ini, dirs |-> m.dirs,
             exc |-> m.exc, result |-> None]
       ELSE [kb_path |-> c.value, initialized |-> TRUE, dirs |-> m.dirs,
             exc |-> None,
             result |-> Some([success |-> TRUE,
                              message |-> <<"Memory service initialized at ",
                                            PathStr(c.value[1])>>,
                              kb_path |-> PathStr(c.value[1])])]

\* the body of the try block of initialize_memory, up to the return or the
\* first exception; assignments made before an exception are kept
initialize_try(arg, kb, ini, ds) ==
  LET c == PathCtor(arg) IN
  IF c.exc # None
  THEN [kb_path |-> kb, initialized |-> ini, dirs |-> ds, exc |-> c.exc,
        result |-> None]
  ELSE LET m == PathMkdir(c.value[1], TRUE, TRUE, ds) IN
       IF m.exc # None
       THEN [kb_path |-> c.value, initialized |-> ini, dirs |-> m.dirs,
             exc |-> m.exc, result |-> None]
       ELSE [kb_path |-> c.value, initialized |-> TRUE, dirs |-> m.dirs,
             exc |-> None,
             result |-> Some([success |-> TRUE,
                              message |-> <<"Memory service initialized at ",
                                            PathStr(c.value[1])>>,
                              kb_path |-> PathStr(c.value[1])])]

\* the failure map built by the except clause
FailureMap(exc) ==
  [success |-> FALSE,
   message |-> <<"Failed to initialize: ", exc>>,
   error   |-> exc]

\* the except clause also clears _initialized
initialize_memory_resetOnFail(arg, kb, ini, ds) ==
  LET t == initialize_try(arg, kb, ini, ds) IN
  [kb_path |-> t.kb_path,
   initialized |-> IF t.exc = None THEN t.initialized ELSE FALSE,
   dirs |-> t.dirs,
   call |-> IF t.exc = None THEN Returned(t.result[1])
            ELSE Returned(FailureMap(t.exc[1]))]

\* no except clause: the exception leaves the function
initialize_memory_noExcept(arg, kb, ini, ds) ==
  LET t == initialize_try(arg, kb, ini, ds) IN
  [kb_path |-> t.kb_path, initialized |-> t.initialized, dirs |-> t.dirs,
   call |-> IF t.exc = None THEN Returned(t.result[1])
            ELSE Raised(t.exc[1])]

\* _kb_path missing from the global statement: the assignment is local
initialize_memory_noGlobal(arg, kb, ini, ds) ==
  LET t == initialize_try(arg, kb, ini, ds) IN
  [kb_path |-> kb, initialized |-> t.initialized, dirs |-> t.dirs,
   call |-> IF t.exc = None THEN Returned(t.result[1])
            ELSE Returned(FailureMap(t.exc[1]))]

\* initialize_memory(kb_path_str): the try block and its except clause
initialize_memory(arg, kb, ini, ds) ==
  LET t == initialize_try(arg, kb, ini, ds) IN
  [kb_path |-> t.kb_path, initialized |-> t.initialized, dirs |-> t.dirs,
   call |-> IF t.exc = None THEN Returned(t.result[1])
            ELSE Returned(FailureMap(t.exc[1]))]

\* the not-initialized check left out
search_memory_noGate(query, limit, ini) ==
  Returned([success |-> TRUE,
            query   |-> query,
            results |-> <<>>,
            message |-> "Search functionality coming soon"])

\* search_memory(query, limit)
search_memory(query, limit, ini) ==
  IF ~ini
  THEN Returned([success |-> FALSE,
                 message |-> "Memory service not initialized",
                 results |-> <<>>])
  ELSE Returned([success |-> TRUE,
                 query   |-> query,
                 results |-> <<>>,
                 message |-> "Search functionality coming soon"])

\* store_conversation(conversation_id, user_message, assistant_message, metadata)
store_conversation(conversation_id, user_message, assistant_message, metadata, ini) ==
  IF ~ini
  THEN Returned([success |-> FALSE,
                 message |-> "Memory service not initialized"])
  ELSE Returned([success |-> TRUE,
                 conversation_id |-> conversation_id,
                 message |-> "Conversation stored successfully"])

\* truthiness of a sequence: a Path without components counts as false
PathTruthy_emptyParts(opt) == opt # None /\ opt[1].parts # <<>>

\* bool(_kb_path) in get_memory_status: None is false; Path defines neither
\* __bool__ nor __len__, so every Path is true
PathTruthy(opt) == opt # None

\* get_memory_status()
get_memory_status(kb, ini) ==
  Returned([initialized    |-> ini,
            kb_path        |-> IF PathTruthy(kb) THEN Some(PathStr(kb[1])) ELSE None,
            python_version |-> "sys.version",
            available      |-> ini])

\* test_connection()
test_connection ==
  Returned([success        |-> TRUE,
            message        |-> "Python plugin is working!",
            python_version |-> "sys.version",
            platform       |-> "sys.platform",
            executable     |-> "sys.executable"])

\* ----------------------------------------------------------------- actions
Call(op, args, c) == [op |-> op, args |-> args, outcome |-> c.outcome, result |-> c.result]

\* what is remembered of a call once another call has followed it: all of an
\* initialize_memory call, the function name and outcome of any other
Earlier(c) ==
  IF c.op = "initialize_memory" THEN c
  ELSE [op |-> c.op, args |-> <<>>, outcome |-> c.outcome, result |-> None]

Init ==
  /\ kb_path = None
  /\ initialized = FALSE
  /\ dirs = InitialDirs
  /\ lastCall = [op |-> "import", args |-> <<>>, outcome |-> "return", result |-> None]
  /\ prevCall = [op |-> "none", args |-> <<>>, outcome |-> "return", result |-> None]
  /\ everSucceeded = FALSE
  /\ inits = 0

Initialize ==
  /\ inits < MaxInits
  /\ \E arg \in InitArgs :
       LET r == initialize_memory(arg, kb_path, initialized, dirs) IN
       /\ kb_path' = r.kb_path
       /\ initialized' = r.initialized
       /\ dirs' = r.dirs
       /\ lastCall' = Call("initialize_memory", <<arg>>, r.call)
       /\ everSucceeded' = (everSucceeded
                            \/ (r.call.outcome = "return" /\ r.call.result.success))
  /\ prevCall' = Earlier(lastCall)
  /\ inits' = inits + 1

Search ==
  /\ \E query \in Queries, limit \in Limits :
       lastCall' = Call("search_memory", <<query, limit>>,
                        search_memory(query, limit, initialized))
  /\ prevCall' = Earlier(lastCall)
  /\ UNCHANGED <<kb_path, initialized, dirs, everSucceeded, inits>>

\* store_conversation also marks the service initialized
Store_lazyInit ==
  /\ \E id \in ConversationIds, metadata \in Metadatas :
       lastCall' = Call("store_conversation", <<id, "hi", "hello", metadata>>,
                        store_conversation(id, "hi", "hello", metadata, initialized))
  /\ prevCall' = Earlier(lastCall)
  /\ initialized' = TRUE
  /\ UNCHANGED <<kb_path, dirs, everSucceeded, inits>>

Store ==
  /\ \E id \in ConversationIds, metadata \in Metadatas :
       lastCall' = Call("store_conversation", <<id, "hi", "hello", metadata>>,
                        store_conversation(id, "hi", "hello", metadata, initialized))
  /\ prevCall' = Earlier(lastCall)
  /\ UNCHANGED <<kb_path, initialized, dirs, everSucceeded, inits>>

GetStatus ==
  /\ lastCall' = Call("get_memory_status", <<>>, get_memory_status(kb_path, initialized))
  /\ prevCall' = Earlier(lastCall)
  /\ UNCHANGED <<kb_path, initialized, dirs, everSucceeded, inits>>

TestConnection ==
  /\ lastCall' = Call("test_connection", <<>>, test_connection)
  /\ prevCall' = Earlier(lastCall)
  /\ UNCHANGED <<kb_path, initialized, dirs, everSucceeded, inits>>

Next == Initialize \/ Search \/ Store \/ GetStatus \/ TestConnection

Spec == Init /\ [][Next]_vars

\* ------------------------------------------------------------------ claims
IsInitialize(c) == c.op = "initialize_memory"

Succeeded(c) == IsInitialize(c) /\ c.outcome = "return" /\ c.result.success

Failed(c) == IsInitialize(c) /\ c.outcome = "return" /\ ~c.result.success

\* what a get_memory_status call made in the current state reports
StatusNow == get_memory_status(kb_path, initialized).result

\* C1: whenever the initialized flag is true, the stored path is set and
\* names a directory that exists.
C1_InitializedImpliesDirExists ==
  initialized => (kb_path # None /\ IsDir(PathStr(kb_path[1]), dirs))

\* C2: as long as no initialize_memory call has returned success, the stored
\* path is unset and get_memory_status reports kb_path as null.
C2_PathAbsentUntilSuccess ==
  ~everSucceeded => (kb_path = None /\ StatusNow.kb_path = None)

\* C3: the initialized flag is false until an initialize_memory call
\* succeeds, and no later call (a failing initialize_memory included) turns it
\* back to false.
C3_InitializedMonotone ==
  /\ [](initialized => everSucceeded)
  /\ [][/\ initialized => initialized'
        /\ (~initialized /\ initialized') => Succeeded(lastCall')]_vars

C3_Witness ==
  /\ initialized
  /\ Failed(lastCall)
  /\ Succeeded(prevCall)

\* C4: search_memory and store_conversation called while initialized is
\* false return success False with "Memory service not initialized" (search
\* with empty results); called while it is true they return success True,
\* search with empty results, store echoing its conversation_id.
C4_GatedOnInitialized ==
  [][/\ lastCall'.op = "search_memory" =>
          /\ lastCall'.outcome = "return"
          /\ lastCall'.result.results = <<>>
          /\ lastCall'.result.success = initialized
          /\ ~initialized => lastCall'.result.message = "Memory service not initialized"
     /\ lastCall'.op = "store_conversation" =>
          /\ lastCall'.outcome = "return"
          /\ lastCall'.result.success = initialized
          /\ ~initialized => lastCall'.result.message = "Memory service not initialized"
          /\ initialized => lastCall'.result.conversation_id = lastCall'.args[1]]_vars

C4_Witness ==
  /\ lastCall.op = "search_memory"
  /\ ~initialized
  /\ kb_path # None
  /\ ~lastCall.result.success

\* C5 as stated: after a successful initialize_memory(p) with a non-empty
\* string p, the next get_memory_status reports initialized True and kb_path
\* equal to p, which is also the kb_path of the initialize result.
C5_StatusReportsArgument ==
  (/\ lastCall.op = "get_memory_status"
   /\ Succeeded(prevCall)
   /\ prevCall.args[1].val # <<>>) =>
     /\ lastCall.result.initialized
     /\ lastCall.result.kb_path = Some(prevCall.args[1].val)
     /\ lastCall.result.kb_path = Some(prevCall.result.kb_path)

\* C5 amended: after a successful initialize_memory(p), the next
\* get_memory_status reports initialized True and the kb_path of the
\* initialize result, which is str(Path(p)), the normalised form of p.
C5_StatusReportsNormalisedPath ==
  (lastCall.op = "get_memory_status" /\ Succeeded(prevCall)) =>
     /\ lastCall.result.initialized
     /\ lastCall.result.available
     /\ lastCall.result.kb_path = Some(prevCall.result.kb_path)
     /\ prevCall.result.kb_path = PathStr(PathParse(prevCall.args[1].val))

C5_Witness ==
  /\ lastCall.op = "get_memory_status"
  /\ Succeeded(prevCall)
  /\ prevCall.args[1].val = <<"a", "/">>
  /\ lastCall.result.kb_path = Some(<<"a">>)

\* C6: initialize_memory(p) called twice in a row with a path the first call
\* could create succeeds both times, and the second call changes neither the
\* service state nor the set of existing directories.
C6_InitializeIdempotent ==
  [][(/\ Succeeded(lastCall)
      /\ IsInitialize(lastCall')
      /\ lastCall'.args = lastCall.args) =>
         /\ Succeeded(lastCall')
         /\ lastCall'.result = lastCall.result
         /\ kb_path' = kb_path
         /\ initialized' = initialized
         /\ dirs' = dirs]_vars

C6_Witness ==
  /\ Succeeded(lastCall)
  /\ Succeeded(prevCall)
  /\ lastCall.args = prevCall.args
  /\ dirs # InitialDirs

\* C7: every call returns a result map and none ends in a raised exception;
\* an initialize_memory call whose directory creation fails returns
\* success False with a message and an error description.
C7_NoRaise ==
  /\ lastCall.outcome = "return"
  /\ IsInitialize(lastCall) =>
       IF lastCall.result.success
       THEN DOMAIN lastCall.result = {"success", "message", "kb_path"}
       ELSE /\ DOMAIN lastCall.result = {"success", "message", "error"}
            /\ lastCall.result.error.type \in
                 {"TypeError", "FileNotFoundError", "FileExistsError",
                  "NotADirectoryError", "PermissionError"}
            /\ lastCall.result.message[2] = lastCall.result.error

C7_Witness ==
  /\ Failed(lastCall)
  /\ lastCall.result.error.type = "PermissionError"

\* C8: get_memory_status reports the current initialized flag in both
\* initialized and available, and the stored path (null when none is stored)
\* in kb_path; before any initialize_memory call it reports False, null, False.
C8_StatusFaithful ==
  lastCall.op = "get_memory_status" =>
     /\ lastCall.outcome = "return"
     /\ lastCall.result.initialized = initialized
     /\ lastCall.result.available = initialized
     /\ (kb_path = None) = (lastCall.result.kb_path = None)
     /\ kb_path # None => lastCall.result.kb_path = Some(PathStr(kb_path[1]))
     /\ inits = 0 => /\ lastCall.result.initialized = FALSE
                     /\ lastCall.result.kb_path = None
                     /\ lastCall.result.available = FALSE

C8_Witness ==
  /\ lastCall.op = "get_memory_status"
  /\ initialized
  /\ kb_path # None
  /\ kb_path[1].parts = <<>>
  /\ lastCall.result.kb_path = Some(<<".">>)

\* C9: search_memory, store_conversation, get_memory_status and
\* test_connection change neither the initialized flag nor the stored path,
\* and test_connection returns success True in every state.
C9_OnlyInitializeMutates ==
  [][/\ lastCall'.op \in {"search_memory", "store_conversation",
                          "get_memory_status", "test_connection"}
          => UNCHANGED <<kb_path, initialized>>
     /\ lastCall'.op = "test_connection" => lastCall'.result.success]_vars

C9_Witness ==
  /\ lastCall.op = "store_conversation"
  /\ ~lastCall.result.success
  /\ ~initialized
  /\ kb_path # None

\* C10 as stated: after every initialize_memory(p) call with a non-empty
\* string p, successful or not, get_memory_status reports p as the stored path.
C10_StoredPathIsArgument ==
  (/\ IsInitialize(lastCall)
   /\ lastCall.args[1].type = "str"
   /\ lastCall.args[1].val # <<>>) =>
     StatusNow.kb_path = Some(lastCall.args[1].val)

\* C10 amended: after every initialize_memory(p) call with a string p,
\* successful or not, the stored path is Path(p) and get_memory_status
\* reports str(Path(p)); a failing call leaves the initialized flag as it was.
C10_StoredPathIsNormalisedArgument ==
  [][IsInitialize(lastCall') =>
        /\ lastCall'.args[1].type = "str" =>
             /\ kb_path' = Some(PathParse(lastCall'.args[1].val))
             /\ get_memory_status(kb_path', initialized').result.kb_path
                  = Some(PathStr(PathParse(lastCall'.args[1].val)))
        /\ Failed(lastCall') => initialized' = initialized]_vars

C10_Witness ==
  /\ Failed(lastCall)
  /\ Succeeded(prevCall)
  /\ initialized
  /\ lastCall.args[1].type = "str"
  /\ StatusNow.kb_path # Some(prevCall.result.kb_path)

====
